---- MODULE Spec2Model ----
(***************************************************************************)
(* A model of mixaqubes: the bar/effect engine of clips.py (MemorySource,  *)
(* Clip, FadeIn) and the bar slicer of mixaqubes.py                        *)
(* (PlayerWindow.cache_active_clip).                                       *)
(*                                                                         *)
(* Numbers.  Gains are Python floats that only ever hold whole multiples   *)
(* of 10 dB (-30.0, -20.0, -10.0, 0.0); they are modelled as integers.     *)
(* A float32 (tensor element, amplitude ratio) is [m, e], the value       *)
(* m * 2^e with MantLow <= |m| < MantHigh or m = 0; its operations round   *)
(* to the nearest value, ties to the even mantissa, as IEEE 754 does.      *)
(* Python floats (doubles) are followed where their rounding shows: in     *)
(* round((60.0 / bpm) * sample_rate).  PCM samples are 16-bit signed       *)
(* little-endian integers, bytes are 0..255.                               *)
(***************************************************************************)
EXTENDS Integers, Sequences, FiniteSets, TLC

VARIABLES
    \* a stand-alone FadeIn object driven by its caller
    fade,            \* [gain, increment]
    fade_ops,        \* the calls made on it so far: "process" / "step"
    fade_ramps,      \* one [start, stop, end_gain] per process() call
    fade_proc,       \* the tensor returned by the last process() call
    \* a Clip object
    clip_bars,       \* Clip.bars: sequence of MemorySource [data, audio_format]
    clip_bar,        \* Clip.bar: the bar cursor
    clip_effects,    \* Clip.effects: sequence of FadeIn records
    clip_state,      \* Clip.state
    clip_current,    \* Clip.current_bar: the MemorySource returned last
    clip_calls,      \* number of next_bar() calls that returned so far
    clip_raised,     \* the exception that ended the last next_bar(), "" if none
    \* a MemorySource being sought
    src,             \* [data, audio_format]
    src_offset,      \* position of MemorySource._file, [hi, lo] = hi * 2^16 + lo
    src_t,           \* the timestamp of the last seek() call, <<>> before any
    \* a bar on its way through Clip.to_torch / Clip.from_torch
    rt_src,          \* the MemorySource read
    rt_tensor,       \* the tensor made of it
    rt_out,          \* the MemorySource written back
    rt_pc,           \* "bytes" -> "tensor" -> "done", or "bytes" -> "raised"
    \* PlayerWindow, as far as cache_active_clip goes
    active_clip,     \* PlayerWindow.active_clip: sequence of MemorySource
    active_bar,      \* PlayerWindow.active_bar
    active_bpm,      \* PlayerWindow.active_bpm, 0 for None
    active_key,      \* PlayerWindow.active_key, "" for None
    full_loop,       \* the bytes get_audio_data returned to the last call
    loop_in,         \* the manifest entry and file of the last call
    cache_ret,       \* how the last call ended: "" / "ok" / "none" / "exit"
    \* PlayerWindow, its player and its events
    player_playing,  \* Player.playing
    player_pending,  \* sources queued in the player and not played to their end
    player_queued,   \* every source handed to player.queue, in order
    sel_queued,      \* [index, source] of the bars queued since the last
                     \* successful clip selection
    win_state,       \* "running" / "closed" / "crashed" / "exited"
    player_was_playing,  \* PlayerWindow._player_playing
    slider_frames    \* handler frames the slider has pushed on the window

fadeVars == <<fade, fade_ops, fade_ramps, fade_proc>>
clipVars == <<clip_bars, clip_bar, clip_effects, clip_state, clip_current, clip_calls,
              clip_raised>>
seekVars == <<src, src_offset, src_t>>
rtVars == <<rt_src, rt_tensor, rt_out, rt_pc>>
winVars == <<active_clip, active_bar, active_bpm, active_key, full_loop, loop_in, cache_ret,
             player_playing, player_pending, player_queued, sel_queued, win_state,
             player_was_playing, slider_frames>>
vars == <<fadeVars, clipVars, seekVars, rtVars, winVars>>

----------------------------------------------------------------------------
(* Bounds of the model *)

MaxCalls == 5        \* calls made on one object in a behaviour
MaxBars == 3         \* bars in a Clip
MaxFrames == 2       \* stereo frames in a bar sent through to_torch/from_torch
MaxChannels == 2     \* channels of a sought MemorySource
TimeBits == 2        \* seek timestamps are multiples of 2^-TimeBits seconds
MaxBeats == 8        \* beats of a loop in the manifest
MaxQueued == 4       \* bars handed to the player in a behaviour
MaxCaptures == 2     \* frames of slider handlers on the window at a time

(* Program constants *)

InitialGain == -30   \* FadeIn.gain, dB
Increment == 10      \* FadeIn.increment, dB
Int16Mod == 65536    \* np.int16: 16-bit two's complement
ByteMod == 256       \* one byte
BeatsPerBar == 4     \* the 4 of bytes_per_bar
MaskHi == 65535      \* 0xfffffffe and 0xfffffffc, upper 16 bits
Mask2Lo == 65534     \* 0xfffffffe, lower 16 bits
Mask4Lo == 65532     \* 0xfffffffc, lower 16 bits
MantBits == 24       \* significand bits of torch.float32
DoubleBits == 53     \* significand bits of a Python float

(* Units of the model *)

LimbMod == 256 * 256      \* byte offsets are held as [hi, lo], lo < 2^16

----------------------------------------------------------------------------
(* Arithmetic helpers *)

Abs(x) == IF x < 0 THEN -x ELSE x

Min(a, b) == IF a < b THEN a ELSE b

RECURSIVE Pow10(_)
Pow10(k) == IF k <= 0 THEN 1 ELSE 10 * Pow10(k - 1)

RECURSIVE Pow2(_)
Pow2(k) == IF k <= 0 THEN 1 ELSE 2 * Pow2(k - 1)

Sign(x) == IF x < 0 THEN -1 ELSE 1

RECURSIVE IsqrtIter(_, _, _)
IsqrtIter(x, lo, hi) ==
    IF lo >= hi THEN lo
    ELSE LET mid == (lo + hi + 1) \div 2
         IN  IF mid * mid <= x THEN IsqrtIter(x, mid, hi)
                               ELSE IsqrtIter(x, lo, mid - 1)

\* floor(sqrt(x)) for 0 <= x < 2^31
Isqrt(x) == IsqrtIter(x, 0, 46340)

\* floor(log2(num / den)), num > 0, den > 0
RECURSIVE Log2Floor(_, _)
Log2Floor(num, den) ==
    IF num < den THEN Log2Floor(2 * num, den) - 1
    ELSE IF num >= 2 * den THEN Log2Floor(num, 2 * den) + 1
    ELSE 0

\* (c * 2^k) mod m
RECURSIVE ShiftMod(_, _, _)
ShiftMod(c, k, m) == IF k <= 0 THEN c % m ELSE ShiftMod((2 * c) % m, k - 1, m)

----------------------------------------------------------------------------
(* float32 *)

MantLow == Pow2(MantBits - 1)
MantHigh == Pow2(MantBits)
HalfUnit == Pow2(MantBits \div 2)     \* mantissas are multiplied in two halves
GuardBits == MantBits \div 4          \* extra low bits carried into a rounding
GuardUnit == Pow2(GuardBits)

F32Zero == [m |-> 0, e |-> 0]

\* the float32 nearest to (mag + g) * 2^e, mag >= 0, where g is guard / 2
\* plus something in (0, 1/2) when sticky: ties go to the even mantissa
RECURSIVE F32Round(_, _, _, _)
F32Round(mag, e, guard, sticky) ==
    IF mag = 0 THEN F32Zero
    ELSE IF mag >= MantHigh
    THEN F32Round(mag \div 2, e + 1, mag % 2, sticky \/ guard = 1)
    ELSE IF mag < MantLow
    THEN F32Round(2 * mag + guard, e - 1, 0, sticky)
    ELSE LET up == guard = 1 /\ (sticky \/ mag % 2 = 1)
             m == IF up THEN mag + 1 ELSE mag
         IN  IF m = MantHigh THEN [m |-> MantLow, e |-> e + 1]
                             ELSE [m |-> m, e |-> e]

F32Signed(sign, x) == [m |-> sign * x.m, e |-> x.e]

F32Neg(x) == [m |-> -x.m, e |-> x.e]

\* an integer as float32 (exact below 2^24)
F32FromInt(i) == F32Signed(Sign(i), F32Round(Abs(i), 0, 0, FALSE))

F32One == F32FromInt(1)

\* a * b in float32
F32Mul(a, b) ==
    LET x == Abs(a.m)
        y == Abs(b.m)
        xh == x \div HalfUnit
        xl == x % HalfUnit
        yh == y \div HalfUnit
        yl == y % HalfUnit
        cross == xh * yl + xl * yh
        low == (cross % HalfUnit) * HalfUnit + xl * yl
        hi == xh * yh + cross \div HalfUnit + low \div MantHigh
        lo == low % MantHigh
        \* x * y = hi * MantHigh + lo
        cutoff == MantHigh \div GuardUnit
    IN  F32Signed(Sign(a.m) * Sign(b.m),
                  F32Round(hi * GuardUnit + lo \div cutoff,
                           a.e + b.e + MantBits - GuardBits, 0, lo % cutoff # 0))

\* a + b in float32
F32Add(a, b) ==
    IF a.m = 0 THEN b
    ELSE IF b.m = 0 THEN a
    ELSE LET a_big == a.e > b.e \/ (a.e = b.e /\ Abs(a.m) >= Abs(b.m))
             big == IF a_big THEN a ELSE b
             small == IF a_big THEN b ELSE a
             d == big.e - small.e
             wide == Abs(small.m) * GuardUnit
             gone == d >= MantBits + GuardBits
             shifted == IF gone THEN 0 ELSE wide \div Pow2(d)
             sticky == gone \/ wide % Pow2(d) # 0
             mag == IF Sign(big.m) = Sign(small.m)
                    THEN Abs(big.m) * GuardUnit + shifted
                    ELSE Abs(big.m) * GuardUnit - shifted - (IF sticky THEN 1 ELSE 0)
         IN  F32Signed(Sign(big.m), F32Round(mag, big.e - GuardBits, 0, sticky))

\* a - b in float32
F32Sub(a, b) == F32Add(a, F32Neg(b))

\* floor(x * 2^steps / den) and what is left, from q = x div den, rem = x mod den
RECURSIVE DivBits(_, _, _, _)
DivBits(q, rem, den, steps) ==
    IF steps = 0 THEN [q |-> q, rem |-> rem]
    ELSE IF 2 * rem >= den THEN DivBits(2 * q + 1, 2 * rem - den, den, steps - 1)
                           ELSE DivBits(2 * q, 2 * rem, den, steps - 1)

\* a / b in float32, b not zero
F32Div(a, b) ==
    IF a.m = 0 THEN F32Zero
    ELSE LET x == Abs(a.m)
             y == Abs(b.m)
             steps == MantBits + GuardBits - 1
             d == DivBits(x \div y, x % y, y, steps)
         IN  F32Signed(Sign(a.m) * Sign(b.m),
                       F32Round(d.q, a.e - b.e - steps, 0, d.rem # 0))

\* a < b
F32Less(a, b) == F32Sub(a, b).m < 0

\* a float32 converted to an integer type: toward zero
F32Trunc(x) ==
    IF x.m = 0 THEN 0
    ELSE IF x.e >= 0 THEN x.m * Pow2(x.e)
    ELSE IF -x.e >= MantBits THEN 0
    ELSE Sign(x.m) * (Abs(x.m) \div Pow2(-x.e))

\* the binary digits of sqrt(num / den), two digits of num / den at a time:
\* root = floor(sqrt(x) * 2^k) and rem = floor(x * 4^k) - root^2, xr / den
\* being what of x * 4^k lies below 1; stops at MantBits + 1 digits
RECURSIVE SqrtDigits(_, _, _, _, _)
SqrtDigits(root, rem, xr, den, k) ==
    IF root >= MantHigh
    THEN [root |-> root, k |-> k, exact |-> rem = 0 /\ xr = 0]
    ELSE LET r4 == 4 * rem + (4 * xr) \div den
             t == 4 * root + 1
         IN  IF r4 >= t THEN SqrtDigits(2 * root + 1, r4 - t, (4 * xr) % den, den, k + 1)
                        ELSE SqrtDigits(2 * root, r4, (4 * xr) % den, den, k + 1)

\* sqrt(num / den) as float32, num > 0, den > 0
F32Sqrt(num, den) ==
    LET whole == num \div den
        root == Isqrt(whole)
        d == SqrtDigits(root, whole - root * root, num % den, den, 0)
    IN  F32Round(d.root, -d.k, 0, ~d.exact)

----------------------------------------------------------------------------
(* FadeIn *)

\* FadeIn.__init__
FadeInNew == [gain |-> InitialGain, increment |-> Increment]

\* 10 ** (gain / 20) as torch.linspace takes it, a float32: the root of
\* 10 ** (gain / 10), for gains that are whole multiples of 10 dB
DbToRatio(gain) ==
    IF gain <= 0
    THEN F32Sqrt(1, Pow10((-gain) \div 10))
    ELSE F32Sqrt(Pow10(gain \div 10), 1)

\* step() without the clamp at 0 dB
FadeInStepNoClamp(f) == [f EXCEPT !.gain = f.gain + f.increment]

\* FadeIn.step
FadeInStep(f) ==
    LET g == f.gain + f.increment
    IN  [f EXCEPT !.gain = IF g > 0 THEN 0 ELSE g]

\* FadeIn.is_done
FadeInIsDone(f) == f.gain >= 0

\* torch.linspace(start, stop, n) in float32: step = (stop - start) / (n - 1),
\* the first half counted up from start, the rest counted down from stop
Linspace(start, stop, n) ==
    IF n = 1 THEN <<start>>
    ELSE LET step == F32Div(F32Sub(stop, start), F32FromInt(n - 1))
         IN  [i \in 1..n |->
                 IF i - 1 < n \div 2
                 THEN F32Add(start, F32Mul(step, F32FromInt(i - 1)))
                 ELSE F32Sub(stop, F32Mul(step, F32FromInt(n - i)))]

\* end_gain of FadeIn.process
FadeInEndGain(f) ==
    LET g == f.gain + f.increment
    IN  IF g > 0 THEN 0 ELSE g

\* process() that leaves out the trailing step()
FadeInProcessNoStep(f, torchdata) ==
    LET start_ratio == DbToRatio(f.gain)
        end_gain == FadeInEndGain(f)
        end_ratio == DbToRatio(end_gain)
        n == Len(torchdata[Len(torchdata)])
        ramp == Linspace(start_ratio, end_ratio, n)
    IN  [proc |-> [c \in 1..Len(torchdata) |->
                      [i \in 1..n |-> F32Mul(torchdata[c][i], ramp[i])]],
         ramp |-> [start |-> start_ratio, stop |-> end_ratio, end_gain |-> end_gain],
         fade |-> f]

\* FadeIn.process: the returned tensor, the ramp used, and the object after
\* the trailing step()
FadeInProcess(f, torchdata) ==
    LET start_ratio == DbToRatio(f.gain)
        end_gain == FadeInEndGain(f)
        end_ratio == DbToRatio(end_gain)
        n == Len(torchdata[Len(torchdata)])
        ramp == Linspace(start_ratio, end_ratio, n)
        proc == [c \in 1..Len(torchdata) |->
                    [i \in 1..n |-> F32Mul(torchdata[c][i], ramp[i])]]
    IN  [proc |-> proc,
         ramp |-> [start |-> start_ratio, stop |-> end_ratio, end_gain |-> end_gain],
         fade |-> FadeInStep(f)]

----------------------------------------------------------------------------
(* PCM bytes <-> tensors *)

\* what a call gives when numpy raises ValueError instead of returning
ValueError == "ValueError"

\* np.frombuffer raises on a buffer that is not whole int16 values
FromBufferRaises(data) == Len(data) % 2 # 0

\* np.frombuffer(data, dtype=np.int16): little-endian signed 16-bit values
FromBuffer(data) ==
    IF FromBufferRaises(data) THEN ValueError
    ELSE [k \in 1..(Len(data) \div 2) |->
             LET u == data[2 * k - 1] + ByteMod * data[2 * k]
             IN  IF u >= Int16Mod \div 2 THEN u - Int16Mod ELSE u]

\* tobytes() that writes the high byte first
ToBytesBigEndian(ints) ==
    [j \in 1..(2 * Len(ints)) |->
        LET u == ints[(j + 1) \div 2] % Int16Mod
        IN  IF j % 2 = 1 THEN u \div ByteMod ELSE u % ByteMod]

\* ndarray.astype(np.int16).tobytes() of integer values
ToBytes(ints) ==
    [j \in 1..(2 * Len(ints)) |->
        LET u == ints[(j + 1) \div 2] % Int16Mod
        IN  IF j % 2 = 1 THEN u % ByteMod ELSE u \div ByteMod]

\* to_torch raises where np.frombuffer does, and in np.stack when
\* raw_ints[::2] and raw_ints[1::2] differ in length
ToTorchRaises(mem_source) ==
    \/ FromBufferRaises(mem_source.data)
    \/ (Len(mem_source.data) \div 2) % 2 # 0

\* Clip.to_torch: deinterleave into two float32 channels
ToTorch(mem_source) ==
    IF ToTorchRaises(mem_source) THEN ValueError
    ELSE LET raw_ints == FromBuffer(mem_source.data)
             a == [i \in 1..((Len(raw_ints) + 1) \div 2) |-> raw_ints[2 * i - 1]]
             b == [i \in 1..(Len(raw_ints) \div 2) |-> raw_ints[2 * i]]
         IN  << [i \in 1..Len(a) |-> F32FromInt(a[i])],
                [i \in 1..Len(b) |-> F32FromInt(b[i])] >>

\* from_torch that writes the channels in the wrong order
FromTorchSwapped(torch_audio, audio_format) ==
    LET size == Len(torch_audio[1]) + Len(torch_audio[2])
        stream == [j \in 1..size |->
                      IF j % 2 = 1 THEN torch_audio[2][(j + 1) \div 2]
                                   ELSE torch_audio[1][j \div 2]]
    IN  [data |-> ToBytes([j \in 1..size |-> F32Trunc(stream[j])]),
         audio_format |-> audio_format]

\* Clip.from_torch: interleave, convert to int16, wrap in a MemorySource
FromTorch(torch_audio, audio_format) ==
    LET size == Len(torch_audio[1]) + Len(torch_audio[2])
        stream == [j \in 1..size |->
                      IF j % 2 = 1 THEN torch_audio[1][(j + 1) \div 2]
                                   ELSE torch_audio[2][j \div 2]]
        int_stream == [j \in 1..size |-> F32Trunc(stream[j])]
    IN  [data |-> ToBytes(int_stream), audio_format |-> audio_format]

----------------------------------------------------------------------------
(* Clip *)

\* the only format Clip.to_torch understands: 16-bit samples, two channels
Stereo16 == [channels |-> 2, sample_size |-> 16, sample_rate |-> 4]

\* pyglet.media.StaticSource over a byte buffer (MemorySource.__init__)
MemorySource(data, audio_format) == [data |-> data, audio_format |-> audio_format]

\* the bars the modelled clips are built from (whole stereo frames)
ClipBarPool ==
    { <<0, 0, 0, 0>>,
      <<16, 39, 240, 216>>,
      <<129, 83, 91, 17>>,
      <<255, 127, 0, 128, 100, 0, 156, 255>> }

\* next_bar that asks is_done() before process(): the head goes one call late
ApplyEffectsLate(effects, torchdata) ==
    IF Len(effects) > 0
    THEN LET r == FadeInProcess(effects[1], torchdata)
         IN  [torchdata |-> r.proc,
              effects |-> IF FadeInIsDone(effects[1])
                          THEN Tail(effects)
                          ELSE <<r.fade>> \o Tail(effects)]
    ELSE [torchdata |-> torchdata, effects |-> effects]

\* the effect part of Clip.next_bar: process with the head effect and drop
\* it once it reports done
ApplyEffects(effects, torchdata) ==
    IF Len(effects) > 0
    THEN LET r == FadeInProcess(effects[1], torchdata)
         IN  [torchdata |-> r.proc,
              effects |-> IF FadeInIsDone(r.fade)
                          THEN Tail(effects)
                          ELSE <<r.fade>> \o Tail(effects)]
    ELSE [torchdata |-> torchdata, effects |-> effects]

\* the cursor advanced without the wrap
AdvanceBarNoWrap(bar, nbars) == bar + 1

\* the cursor part of Clip.next_bar
AdvanceBar(bar, nbars) == (bar + 1) % nbars

\* Clip.__init__
ClipInit ==
    /\ clip_bars \in UNION { [1..n -> { MemorySource(d, Stereo16) : d \in ClipBarPool }]
                              : n \in 1..MaxBars }
    /\ clip_bar = 0
    /\ clip_effects = <<FadeInNew>>
    /\ clip_state = "cued"
    /\ clip_current = MemorySource(<<>>, Stereo16)
    /\ clip_calls = 0
    /\ clip_raised = ""

\* Clip.next_bar; when to_torch raises, the call ends there and the Clip
\* is as it was
NextBar ==
    /\ clip_calls < MaxCalls
    /\ IF ToTorchRaises(clip_bars[clip_bar + 1])
       THEN /\ clip_raised' = ValueError
            /\ UNCHANGED <<clip_bars, clip_bar, clip_effects, clip_state, clip_current,
                           clip_calls>>
       ELSE /\ LET current_bar == clip_bar
                   torchdata == ToTorch(clip_bars[current_bar + 1])
                   r == ApplyEffects(clip_effects, torchdata)
               IN  /\ clip_effects' = r.effects
                   /\ clip_current' = FromTorch(r.torchdata,
                                                clip_bars[current_bar + 1].audio_format)
            /\ clip_bar' = AdvanceBar(clip_bar, Len(clip_bars))
            /\ clip_calls' = clip_calls + 1
            /\ clip_raised' = ""
            /\ UNCHANGED <<clip_bars, clip_state>>

\* the caller cancels the pending effects between two next_bar() calls:
\* clip.effects = []
ClearEffects ==
    /\ clip_effects' = <<>>
    /\ UNCHANGED <<clip_bars, clip_bar, clip_state, clip_current, clip_calls, clip_raised>>

----------------------------------------------------------------------------
(* A FadeIn driven directly *)

\* the tensors handed to process(): the deinterleaved bars of the pool
TensorPool == { ToTorch(MemorySource(d, Stereo16)) : d \in ClipBarPool }

FadeInit ==
    /\ fade = FadeInNew
    /\ fade_ops = <<>>
    /\ fade_ramps = <<>>
    /\ fade_proc = <<>>

\* FadeIn.process
Process ==
    /\ Len(fade_ops) < MaxCalls
    /\ \E torchdata \in TensorPool :
          LET r == FadeInProcess(fade, torchdata)
          IN  /\ fade' = r.fade
              /\ fade_proc' = r.proc
              /\ fade_ramps' = Append(fade_ramps, r.ramp)
    /\ fade_ops' = Append(fade_ops, "process")

\* FadeIn.step
Step ==
    /\ Len(fade_ops) < MaxCalls
    /\ fade' = FadeInStep(fade)
    /\ fade_ops' = Append(fade_ops, "step")
    /\ UNCHANGED <<fade_ramps, fade_proc>>

----------------------------------------------------------------------------
(* AudioFormat *)

\* bytes per sample frame: channels * sample_size // 8
BytesPerSample(audio_format) ==
    (audio_format.channels * audio_format.sample_size) \div 8

\* audio_format.bytes_per_second
BytesPerSecond(audio_format) ==
    BytesPerSample(audio_format) * audio_format.sample_rate

----------------------------------------------------------------------------
(* MemorySource.seek *)

\* x & y of two naturals
RECURSIVE BitAnd(_, _)
BitAnd(x, y) ==
    IF x = 0 \/ y = 0 THEN 0
    ELSE (x % 2) * (y % 2) + 2 * BitAnd(x \div 2, y \div 2)

\* offset & mask, the mask given as its two 16-bit halves
MaskOffset(offset, mask_hi, mask_lo) ==
    [hi |-> BitAnd(offset.hi, mask_hi), lo |-> BitAnd(offset.lo, mask_lo)]

\* a timestamp is [sec_hi, sec_lo, frac]:
\* (sec_hi * 2^16 + sec_lo) + frac / 2^TimeBits seconds
TimeDen == 2 ^ TimeBits

\* int(timestamp * bytes_per_second)
ByteOffset(timestamp, audio_format) ==
    LET bps == BytesPerSecond(audio_format)
        low == timestamp.sec_lo * bps + (timestamp.frac * bps) \div TimeDen
    IN  [hi |-> timestamp.sec_hi * bps + low \div LimbMod, lo |-> low % LimbMod]

\* the alignment with the 2-byte mask used for 4-byte frames too
AlignOffsetOneMask(offset, audio_format) ==
    IF BytesPerSample(audio_format) = 2 \/ BytesPerSample(audio_format) = 4
    THEN MaskOffset(offset, MaskHi, Mask2Lo)
    ELSE offset

\* "Align to sample"
AlignOffset(offset, audio_format) ==
    IF BytesPerSample(audio_format) = 2 THEN MaskOffset(offset, MaskHi, Mask2Lo)
    ELSE IF BytesPerSample(audio_format) = 4 THEN MaskOffset(offset, MaskHi, Mask4Lo)
    ELSE offset

\* the offset MemorySource.seek hands to self._file.seek
SeekOffset(timestamp, audio_format) ==
    AlignOffset(ByteOffset(timestamp, audio_format), audio_format)

\* the formats of the sought buffers
SeekFormats ==
    { [channels |-> c, sample_size |-> b, sample_rate |-> r] :
          c \in 1..MaxChannels, b \in {16, 32}, r \in {1, 3} }

\* whole seconds of the timestamps sought, as <<sec_hi, sec_lo>>:
\* 0, 1, 2, 7, 2^30, 2^31 + 1
SeekSeconds == { <<0, 0>>, <<0, 1>>, <<0, 2>>, <<0, 7>>, <<16384, 0>>, <<32768, 1>> }

Timestamps ==
    { [sec_hi |-> s[1], sec_lo |-> s[2], frac |-> q] :
          s \in SeekSeconds, q \in 0..(TimeDen - 1) }

\* the bytes of a decoded file: byte i of every file is i mod 256
SourceData(n) == [i \in 1..n |-> (i - 1) % ByteMod]

\* MemorySource.__init__: the read position starts at 0
SeekInit ==
    /\ \E f \in SeekFormats, frames \in 1..2 :
          src = MemorySource(SourceData(frames * BytesPerSample(f)), f)
    /\ src_offset = [hi |-> 0, lo |-> 0]
    /\ src_t = <<>>

\* MemorySource.seek; BytesIO.seek takes any offset >= 0
Seek ==
    /\ \E t \in Timestamps :
          /\ src_offset' = SeekOffset(t, src.audio_format)
          /\ src_t' = t
    /\ UNCHANGED src

----------------------------------------------------------------------------
(* A bar through Clip.to_torch and Clip.from_torch, no effect in between *)

\* one 16-bit stereo frame: left sample, right sample, little-endian
FramePool ==
    { <<0, 0, 0, 0>>, <<255, 255, 1, 0>>, <<0, 128, 255, 127>>,
      <<1, 2, 3, 4>>, <<128, 0, 0, 1>>, <<254, 255, 127, 128>> }

RECURSIVE Flatten(_)
Flatten(seqs) == IF seqs = <<>> THEN <<>> ELSE Head(seqs) \o Flatten(Tail(seqs))

RtBars ==
    { Flatten(fs) : fs \in UNION { [1..n -> FramePool] : n \in 1..MaxFrames } }
        \cup { <<1, 0>>, <<1, 0, 2, 0, 3, 0>>, <<1, 0, 2, 0, 3>> }

RtInit ==
    /\ rt_src \in { MemorySource(d, Stereo16) : d \in RtBars }
    /\ rt_tensor = <<>>
    /\ rt_out = MemorySource(<<>>, Stereo16)
    /\ rt_pc = "bytes"

\* torchdata = self.to_torch(self.bars[current_bar])
RtToTorch ==
    /\ rt_pc = "bytes"
    /\ IF ToTorchRaises(rt_src)
       THEN rt_pc' = "raised" /\ UNCHANGED rt_tensor
       ELSE rt_pc' = "tensor" /\ rt_tensor' = ToTorch(rt_src)
    /\ UNCHANGED <<rt_src, rt_out>>

\* self.current_bar = self.from_torch(torchdata)
RtFromTorch ==
    /\ rt_pc = "tensor"
    /\ rt_out' = FromTorch(rt_tensor, rt_src.audio_format)
    /\ rt_pc' = "done"
    /\ UNCHANGED <<rt_src, rt_tensor>>

----------------------------------------------------------------------------
(* PlayerWindow.cache_active_clip *)

\* Python's round() of num / den, num >= 0, den > 0: ties go to the even
RoundHalfEven(num, den) ==
    LET q == num \div den
        r == num % den
    IN  IF 2 * r < den THEN q
        ELSE IF 2 * r > den THEN q + 1
        ELSE IF q % 2 = 0 THEN q ELSE q + 1

\* fl(60.0 / bpm) - 60 / bpm, in units of 2^-k / bpm, k the binary places
\* of the double's significand: the remainder of the division, taken down
\* or up to the nearer double
DivisionError(bpm) ==
    LET k == DoubleBits - 1 - Log2Floor(60, bpm)
        rho == ShiftMod(60, k, bpm)
    IN  IF 2 * rho < bpm THEN -rho ELSE bpm - rho

\* Whether the double product fl(60.0 / bpm) * sample_rate rounds to the
\* tie n + 0.5 that 60 * sample_rate / bpm is: it does when it is within
\* half a unit in the last place of the tie
ProductIsTie(bpm, sample_rate, err) ==
    LET s == Log2Floor((120 * sample_rate) \div bpm, 2) - 1 - Log2Floor(60, bpm)
    IN  IF s < 0 THEN Abs(err) * sample_rate * Pow2(-s) <= bpm
        ELSE \/ Pow2(Min(s, MantBits)) >= sample_rate
             \/ Abs(err) * sample_rate <= bpm * Pow2(Min(s, MantBits))

\* samples_per_beat = round((60.0 / bpm) * sample_rate), in doubles, for a
\* whole bpm: away from a tie the rounding of the doubles does not show;
\* at a tie the product is the tie or falls to the side of the division's
\* error
SamplesPerBeat(bpm, sample_rate) ==
    LET twice == (120 * sample_rate) \div bpm
        err == DivisionError(bpm)
    IN  IF (120 * sample_rate) % bpm # 0 \/ twice % 2 = 0
             \/ ProductIsTie(bpm, sample_rate, err)
        THEN RoundHalfEven(60 * sample_rate, bpm)
        ELSE IF err < 0 THEN twice \div 2 ELSE twice \div 2 + 1

\* bytes_per_bar = 4 * samples_per_beat * bytes_per_sample
BytesPerBar(samples_per_beat, bytes_per_sample) ==
    BeatsPerBar * samples_per_beat * bytes_per_sample

\* the byte count asked of get_audio_data
RequestedBytes(samples_per_beat, bytes_per_sample, beats) ==
    samples_per_beat * bytes_per_sample * beats

\* loop.get_audio_data(n).data: the first n bytes of the file, or all of it
GetAudioData(file_bytes, n) == SubSeq(file_bytes, 1, Min(n, Len(file_bytes)))

\* the chunks taken one byte too long: data[i:i+bytes_per_bar+1]
BarsRawOverlap(data, bytes_per_bar) ==
    [k \in 1..((Len(data) + bytes_per_bar - 1) \div bytes_per_bar) |->
        SubSeq(data, (k - 1) * bytes_per_bar + 1, Min(k * bytes_per_bar + 1, Len(data)))]

\* [data[i:i+bytes_per_bar] for i in range(0, len(data), bytes_per_bar)]
BarsRaw(data, bytes_per_bar) ==
    [k \in 1..((Len(data) + bytes_per_bar - 1) \div bytes_per_bar) |->
        SubSeq(data, (k - 1) * bytes_per_bar + 1, Min(k * bytes_per_bar, Len(data)))]

\* the tempos, file formats and file sizes of the modelled clip directory
BpmSet == {24, 40, 60, 120}
LoopFormats ==
    { [channels |-> c, sample_size |-> 16, sample_rate |-> r] : c \in {1, 2}, r \in {2, 3} }
FileSizes == {24, 100, 400}
Keys == {"8A"}

\* PlayerWindow.__init__
WinInit ==
    /\ active_clip = <<>>
    /\ active_bar = 0
    /\ active_bpm = 0
    /\ active_key = ""
    /\ full_loop = <<>>
    /\ loop_in = <<>>
    /\ cache_ret = ""
    /\ player_playing = FALSE
    /\ player_pending = 0
    /\ player_queued = <<>>
    /\ sel_queued = <<>>
    /\ win_state = "running"
    /\ player_was_playing = FALSE
    /\ slider_frames = 0

\* the slicing of cache_active_clip: the bytes read and the bars cut of them
SliceLoop(bpm, beats, fmt, size) ==
    LET samples_per_beat == SamplesPerBeat(bpm, fmt.sample_rate)
        bytes_per_sample == BytesPerSample(fmt)
        bytes_per_bar == BytesPerBar(samples_per_beat, bytes_per_sample)
        data == GetAudioData(SourceData(size),
                    RequestedBytes(samples_per_beat, bytes_per_sample, beats))
        bars_raw == BarsRaw(data, bytes_per_bar)
    IN  [data |-> data,
         clip |-> [k \in 1..Len(bars_raw) |-> MemorySource(bars_raw[k], fmt)]]

\* cache_active_clip, the loop is in the manifest and its file exists
CacheActiveClip ==
    /\ cache_ret # "exit"
    /\ \E bpm \in BpmSet, beats \in 1..MaxBeats, fmt \in LoopFormats,
          size \in FileSizes, key \in Keys :
          LET sliced == SliceLoop(bpm, beats, fmt, size)
          IN  /\ active_bpm' = bpm
              /\ active_key' = key
              /\ full_loop' = sliced.data
              /\ active_clip' = sliced.clip
              /\ loop_in' = [bpm |-> bpm, beats |-> beats, audio_format |-> fmt,
                             size |-> size]
    /\ active_bar' = 0
    /\ cache_ret' = "ok"
    /\ sel_queued' = <<>>
    /\ UNCHANGED <<player_playing, player_pending, player_queued, win_state,
                   player_was_playing, slider_frames>>

\* cache_active_clip, the manifest holds null for the loop: returns None
CacheNotInDatabase ==
    /\ cache_ret # "exit"
    /\ cache_ret' = "none"
    /\ UNCHANGED <<active_clip, active_bar, active_bpm, active_key, full_loop, loop_in>>
    /\ UNCHANGED <<player_playing, player_pending, player_queued, sel_queued, win_state,
                   player_was_playing, slider_frames>>

\* cache_active_clip, the loop's file does not exist: exit(0)
CacheInvalidPath ==
    /\ cache_ret # "exit"
    /\ cache_ret' = "exit"
    /\ win_state' = "exited"
    /\ UNCHANGED <<active_clip, active_bar, active_bpm, active_key, full_loop, loop_in>>
    /\ UNCHANGED <<player_playing, player_pending, player_queued, sel_queued,
                   player_was_playing, slider_frames>>

\* PlayerWindow and its player as the handlers see them
Window ==
    [clip |-> active_clip, bar |-> active_bar, playing |-> player_playing,
     pending |-> player_pending, queued |-> player_queued, sel |-> sel_queued,
     state |-> win_state, saved |-> player_was_playing, frames |-> slider_frames]

\* the loops that the clip directory binds to the selection keys
WinLoops ==
    { [bpm |-> 120, key |-> "8A", beats |-> 4, size |-> 100,
       audio_format |-> [channels |-> 1, sample_size |-> 16, sample_rate |-> 2]],
      [bpm |-> 120, key |-> "8A", beats |-> 12, size |-> 100,
       audio_format |-> [channels |-> 1, sample_size |-> 16, sample_rate |-> 2]],
      [bpm |-> 60, key |-> "5B", beats |-> 8, size |-> 100,
       audio_format |-> [channels |-> 2, sample_size |-> 16, sample_rate |-> 2]],
      [bpm |-> 60, key |-> "5B", beats |-> 6, size |-> 24,
       audio_format |-> [channels |-> 1, sample_size |-> 16, sample_rate |-> 2]] }

\* cache_active_clip installs the bars without resetting the index
SelectClipKeepBar(w, clip) == [w EXCEPT !.clip = clip, !.sel = <<>>]

\* cache_active_clip on the window: the new bars, the index back at 0
SelectClip(w, clip) == [w EXCEPT !.clip = clip, !.bar = 0, !.sel = <<>>]

\* player.queue(active_clip[active_bar]); advance the index; player.play()
QueueActiveBar(w) ==
    [w EXCEPT !.queued = Append(@, w.clip[w.bar + 1]),
              !.sel = Append(@, [index |-> w.bar, source |-> w.clip[w.bar + 1]]),
              !.pending = @ + 1,
              !.bar = (w.bar + 1) % Len(w.clip),
              !.playing = TRUE]

\* PlayerWindow.on_player_eos
OnPlayerEos(w) == IF Len(w.clip) # 0 THEN QueueActiveBar(w) ELSE w

\* Player.next_source: pauses, drops the current source; with none left it
\* dispatches on_player_eos, else it resumes and dispatches
\* on_player_next_source, which only redraws
NextSource(w) ==
    IF w.pending = 0 THEN [w EXCEPT !.playing = FALSE]
    ELSE IF w.pending = 1
         THEN OnPlayerEos([w EXCEPT !.playing = FALSE, !.pending = 0])
         ELSE [w EXCEPT !.pending = @ - 1]

\* Player.seek: pauses, returns at once when there is no source, else moves
\* the play position and resumes if it was playing
PlayerSeek(w) == IF w.pending = 0 THEN [w EXCEPT !.playing = FALSE] ELSE w

\* PlayerWindow.on_begin_scroll, then on_change(value)
OnBeginScroll(w) == PlayerSeek([w EXCEPT !.saved = w.playing, !.playing = FALSE])

\* PlayerWindow.on_end_scroll
OnEndScroll(w) == IF w.saved THEN [w EXCEPT !.playing = TRUE] ELSE w

\* PlayerWindow.on_play_pause; player.source is None when nothing is queued
OnPlayPause(w) ==
    IF w.playing THEN [w EXCEPT !.playing = FALSE]
    ELSE IF w.pending = 0 THEN [w EXCEPT !.state = "crashed"]
         ELSE [w EXCEPT !.playing = TRUE]

\* PlayerWindow.on_close
OnClose(w) == [w EXCEPT !.playing = FALSE, !.state = "closed"]

\* the tail of on_key_press, "bootstrapping play queue"
Bootstrap(w) ==
    IF w.playing = FALSE /\ Len(w.clip) # 0 THEN QueueActiveBar(w) ELSE w

\* the window's fields and the player after a handler
SetWindow(w) ==
    /\ active_clip' = w.clip
    /\ active_bar' = w.bar
    /\ player_playing' = w.playing
    /\ player_pending' = w.pending
    /\ player_queued' = w.queued
    /\ sel_queued' = w.sel
    /\ win_state' = w.state
    /\ player_was_playing' = w.saved
    /\ slider_frames' = w.frames

\* the event loop delivers an event to the open window
Running == win_state = "running" /\ Len(player_queued) < MaxQueued

\* on_key_press, keys 1 to 6 with a loop whose file exists
KeySelect ==
    /\ Running
    /\ \E loop \in WinLoops :
          LET sliced == SliceLoop(loop.bpm, loop.beats, loop.audio_format, loop.size)
          IN  /\ active_bpm' = loop.bpm
              /\ active_key' = loop.key
              /\ full_loop' = sliced.data
              /\ loop_in' = [bpm |-> loop.bpm, beats |-> loop.beats,
                             audio_format |-> loop.audio_format, size |-> loop.size]
              /\ SetWindow(Bootstrap(SelectClip(Window, sliced.clip)))
    /\ cache_ret' = "ok"

\* on_key_press, keys 1 to 6 with a loop that the manifest holds as null:
\* unpacking the None that cache_active_clip returns raises TypeError
KeyNotInDatabase ==
    /\ Running
    /\ cache_ret' = "none"
    /\ win_state' = "crashed"
    /\ UNCHANGED <<active_clip, active_bar, active_bpm, active_key, full_loop, loop_in,
                   player_playing, player_pending, player_queued, sel_queued,
                   player_was_playing, slider_frames>>

\* on_key_press, keys 1 to 6 with a loop whose file is missing: exit(0)
KeyInvalidPath ==
    /\ Running
    /\ cache_ret' = "exit"
    /\ win_state' = "exited"
    /\ UNCHANGED <<active_clip, active_bar, active_bpm, active_key, full_loop, loop_in,
                   player_playing, player_pending, player_queued, sel_queued,
                   player_was_playing, slider_frames>>

\* on_key_press, SPACE
KeySpace ==
    /\ Running
    /\ LET w == OnPlayPause(Window)
       IN  SetWindow(IF w.state = "crashed" THEN w ELSE Bootstrap(w))
    /\ UNCHANGED <<active_bpm, active_key, full_loop, loop_in, cache_ret>>

\* on_key_press, ESCAPE
KeyEscape ==
    /\ Running
    /\ SetWindow(Bootstrap(OnClose(Window)))
    /\ UNCHANGED <<active_bpm, active_key, full_loop, loop_in, cache_ret>>

\* on_key_press, LEFT: player.seek(0)
KeyLeft ==
    /\ Running
    /\ SetWindow(Bootstrap(PlayerSeek(Window)))
    /\ UNCHANGED <<active_bpm, active_key, full_loop, loop_in, cache_ret>>

\* on_key_press, RIGHT
KeyRight ==
    /\ Running
    /\ SetWindow(Bootstrap(NextSource(Window)))
    /\ UNCHANGED <<active_bpm, active_key, full_loop, loop_in, cache_ret>>

\* Slider.on_mouse_press, once: capture_events pushes one more frame of the
\* slider's handlers on the window, then on_begin_scroll and on_change are
\* dispatched.  A press while the slider holds the mouse runs it again,
\* once per frame
SliderPress ==
    /\ Running
    /\ slider_frames < MaxCaptures
    /\ SetWindow([OnBeginScroll(Window) EXCEPT !.frames = @ + 1])
    /\ UNCHANGED <<active_bpm, active_key, full_loop, loop_in, cache_ret>>

\* Slider.on_mouse_release, once, reached through a pushed frame:
\* release_events removes one frame, then on_end_scroll is dispatched
SliderRelease ==
    /\ Running
    /\ slider_frames > 0
    /\ SetWindow([OnEndScroll(Window) EXCEPT !.frames = @ - 1])
    /\ UNCHANGED <<active_bpm, active_key, full_loop, loop_in, cache_ret>>

\* play_pause_button.on_press: on_play_pause alone
ButtonPlayPause ==
    /\ Running
    /\ SetWindow(OnPlayPause(Window))
    /\ UNCHANGED <<active_bpm, active_key, full_loop, loop_in, cache_ret>>

\* the window manager closes the window: on_close alone
WindowClose ==
    /\ Running
    /\ SetWindow(OnClose(Window))
    /\ UNCHANGED <<active_bpm, active_key, full_loop, loop_in, cache_ret>>

\* the player plays its current source to the end and moves on
SourceEnds ==
    /\ Running
    /\ player_playing
    /\ player_pending > 0
    /\ SetWindow(NextSource(Window))
    /\ UNCHANGED <<active_bpm, active_key, full_loop, loop_in, cache_ret>>

----------------------------------------------------------------------------
(* Specifications *)

\* the objects a specification does not drive stay as constructed
FadeIdle ==
    /\ fade = FadeInNew
    /\ fade_ops = <<>>
    /\ fade_ramps = <<>>
    /\ fade_proc = <<>>

ClipIdle ==
    /\ clip_bars = <<MemorySource(<<0, 0, 0, 0>>, Stereo16)>>
    /\ clip_bar = 0
    /\ clip_effects = <<FadeInNew>>
    /\ clip_state = "cued"
    /\ clip_current = MemorySource(<<>>, Stereo16)
    /\ clip_calls = 0
    /\ clip_raised = ""

SeekIdle ==
    /\ src = MemorySource(<<0, 0, 0, 0>>, Stereo16)
    /\ src_offset = [hi |-> 0, lo |-> 0]
    /\ src_t = <<>>

RtIdle ==
    /\ rt_src = MemorySource(<<0, 0, 0, 0>>, Stereo16)
    /\ rt_tensor = <<>>
    /\ rt_out = MemorySource(<<>>, Stereo16)
    /\ rt_pc = "bytes"

\* a Clip and its caller
Init == ClipInit /\ FadeIdle /\ SeekIdle /\ RtIdle /\ WinInit

Next == NextBar /\ UNCHANGED <<fadeVars, seekVars, rtVars, winVars>>

Spec == Init /\ [][Next]_vars

\* a Clip and a caller that may cancel its effects
CancelNext ==
    \/ NextBar /\ UNCHANGED <<fadeVars, seekVars, rtVars, winVars>>
    \/ ClearEffects /\ UNCHANGED <<fadeVars, seekVars, rtVars, winVars>>

SpecCancel == Init /\ [][CancelNext]_vars

\* a FadeIn and its caller
FadeSpecInit == FadeInit /\ ClipIdle /\ SeekIdle /\ RtIdle /\ WinInit

FadeNext ==
    \/ Process /\ UNCHANGED <<clipVars, seekVars, rtVars, winVars>>
    \/ Step /\ UNCHANGED <<clipVars, seekVars, rtVars, winVars>>

SpecFade == FadeSpecInit /\ [][FadeNext]_vars

\* a MemorySource and its caller
SeekSpecInit == SeekInit /\ FadeIdle /\ ClipIdle /\ RtIdle /\ WinInit

SeekNext == Seek /\ UNCHANGED <<fadeVars, clipVars, rtVars, winVars>>

SpecSeek == SeekSpecInit /\ [][SeekNext]_vars

\* a bar deinterleaved and interleaved again
RtSpecInit == RtInit /\ FadeIdle /\ ClipIdle /\ SeekIdle /\ WinInit

RtNext ==
    \/ RtToTorch /\ UNCHANGED <<fadeVars, clipVars, seekVars, winVars>>
    \/ RtFromTorch /\ UNCHANGED <<fadeVars, clipVars, seekVars, winVars>>

SpecRoundTrip == RtSpecInit /\ [][RtNext]_vars

\* the PlayerWindow and its clip-selection keys
WinSpecInit == WinInit /\ FadeIdle /\ ClipIdle /\ SeekIdle /\ RtIdle

WinNext ==
    \/ CacheActiveClip /\ UNCHANGED <<fadeVars, clipVars, seekVars, rtVars>>
    \/ CacheNotInDatabase /\ UNCHANGED <<fadeVars, clipVars, seekVars, rtVars>>
    \/ CacheInvalidPath /\ UNCHANGED <<fadeVars, clipVars, seekVars, rtVars>>

SpecSlicer == WinSpecInit /\ [][WinNext]_vars

\* the PlayerWindow under its key presses and the player's events
EventNext ==
    \/ SourceEnds /\ UNCHANGED <<fadeVars, clipVars, seekVars, rtVars>>
    \/ KeySelect /\ UNCHANGED <<fadeVars, clipVars, seekVars, rtVars>>
    \/ KeyNotInDatabase /\ UNCHANGED <<fadeVars, clipVars, seekVars, rtVars>>
    \/ KeyInvalidPath /\ UNCHANGED <<fadeVars, clipVars, seekVars, rtVars>>
    \/ KeySpace /\ UNCHANGED <<fadeVars, clipVars, seekVars, rtVars>>
    \/ KeyEscape /\ UNCHANGED <<fadeVars, clipVars, seekVars, rtVars>>
    \/ KeyLeft /\ UNCHANGED <<fadeVars, clipVars, seekVars, rtVars>>
    \/ KeyRight /\ UNCHANGED <<fadeVars, clipVars, seekVars, rtVars>>
    \/ SliderPress /\ UNCHANGED <<fadeVars, clipVars, seekVars, rtVars>>
    \/ SliderRelease /\ UNCHANGED <<fadeVars, clipVars, seekVars, rtVars>>
    \/ ButtonPlayPause /\ UNCHANGED <<fadeVars, clipVars, seekVars, rtVars>>
    \/ WindowClose /\ UNCHANGED <<fadeVars, clipVars, seekVars, rtVars>>

SpecWindow == WinSpecInit /\ [][EventNext]_vars

----------------------------------------------------------------------------
(* Helpers of the properties *)

\* offset mod m of an offset held as [hi, lo]
OffsetMod(offset, m) == ((offset.hi % m) * (LimbMod % m) + offset.lo) % m

\* offset rounded down to a multiple of m
RoundDownTo(offset, m) ==
    LET r == OffsetMod(offset, m)
    IN  IF offset.lo >= r THEN [hi |-> offset.hi, lo |-> offset.lo - r]
        ELSE [hi |-> offset.hi - 1, lo |-> offset.lo + LimbMod - r]

OnlyProcessCalls == \A i \in 1..Len(fade_ops) : fade_ops[i] = "process"

\* the bar the last next_bar() call read
LastBarRead == clip_bars[((clip_calls - 1) % Len(clip_bars)) + 1]

----------------------------------------------------------------------------
(* Properties *)

\* C1: a fresh FadeIn on which only process() is called is not done before
\* the first, second and third call, is done after the third, and the ramp
\* of the third call ends at 0 dB, ratio 1.0.
C1_FadeInDoneAfterThree ==
    OnlyProcessCalls =>
        /\ Len(fade_ops) < 3 => ~FadeInIsDone(fade)
        /\ Len(fade_ops) >= 3 =>
              /\ FadeInIsDone(fade)
              /\ fade_ramps[3].end_gain = 0
              /\ fade_ramps[3].stop = F32One

C1_Witness ==
    OnlyProcessCalls /\ Len(fade_ops) = 3 /\ fade.gain = 0 /\ F32Less(fade_ramps[3].start, F32One)

\* C2: a next_bar() call removes the head effect exactly when that call's
\* process() took its gain to 0 dB or above; otherwise the head stays, one
\* step further; and no state between calls has a done effect at the head.
C2_PopIffDone ==
    /\ [](Len(clip_effects) > 0 => clip_effects[1].gain < 0)
    /\ [][(clip_calls' # clip_calls /\ Len(clip_effects) > 0) =>
            LET head == clip_effects[1]
                done == head.gain + head.increment >= 0
            IN  /\ done => clip_effects' = Tail(clip_effects)
                /\ ~done => /\ Len(clip_effects') = Len(clip_effects)
                            /\ clip_effects'[1].gain = head.gain + head.increment
                            /\ Tail(clip_effects') = Tail(clip_effects)]_vars

C2_Witness == clip_calls = 3 /\ clip_effects = <<>>

\* C3: the cursor stays within the bars, every call reads bars[cursor] and
\* moves the cursor one on, modulo the number of bars; on a 2-bar clip two
\* calls take it 0 -> 1 -> 0 and leave the unfinished FadeIn in the chain.
C3_CursorCycles ==
    /\ 0 <= clip_bar /\ clip_bar < Len(clip_bars)
    /\ clip_bar = clip_calls % Len(clip_bars)
    /\ clip_calls > 0 => Len(clip_current.data) = Len(LastBarRead.data)
    /\ clip_calls > 3 => clip_current.data = LastBarRead.data
    /\ (Len(clip_bars) = 2 /\ clip_calls = 1) => clip_bar = 1
    /\ (Len(clip_bars) = 2 /\ clip_calls = 2) =>
            /\ clip_bar = 0
            /\ Len(clip_effects) = 1
            /\ clip_effects[1].gain < 0

C3_Witness ==
    /\ Len(clip_bars) = 2 /\ clip_calls = 2 /\ clip_bar = 0
    /\ clip_bars[1] # clip_bars[2]

\* C4: over process() and step() calls the gain never goes down and never
\* goes above 0 dB; no ramp starts or ends above 1.0 and no ramp starts
\* below the start of the ramp before it.
C4_GainMonotoneBounded ==
    /\ [](/\ fade.gain <= 0
          /\ \A i \in 1..Len(fade_ramps) :
                /\ ~F32Less(F32One, fade_ramps[i].start)
                /\ ~F32Less(F32One, fade_ramps[i].stop)
                /\ i > 1 => ~F32Less(fade_ramps[i].start, fade_ramps[i - 1].start))
    /\ [][fade'.gain >= fade.gain]_vars

C4_Witness ==
    /\ Len(fade_ops) = MaxCalls
    /\ Len(fade_ramps) >= 2
    /\ \E i \in 1..Len(fade_ops) : fade_ops[i] = "step"
    /\ F32Less(fade_ramps[1].start, fade_ramps[Len(fade_ramps)].start)
    /\ fade.gain = 0

\* C5: a loop of a multiple of 4 beats whose file holds the bytes asked for
\* is cut into beats / 4 bars of bytes_per_bar bytes each, which are, in
\* order, the consecutive chunks of the bytes read.
C5_SliceDivisible ==
    (/\ loop_in # <<>>
     /\ loop_in.beats % BeatsPerBar = 0
     /\ loop_in.size >= RequestedBytes(
            SamplesPerBeat(loop_in.bpm, loop_in.audio_format.sample_rate),
            BytesPerSample(loop_in.audio_format), loop_in.beats))
    =>
    LET bytes_per_bar ==
            BeatsPerBar * SamplesPerBeat(loop_in.bpm, loop_in.audio_format.sample_rate)
                        * BytesPerSample(loop_in.audio_format)
        bar_count == loop_in.beats \div BeatsPerBar
    IN  /\ Len(active_clip) = bar_count
        /\ \A k \in 1..Len(active_clip) :
              /\ Len(active_clip[k].data) = bytes_per_bar
              /\ active_clip[k].data =
                    SubSeq(full_loop, (k - 1) * bytes_per_bar + 1, k * bytes_per_bar)
              /\ active_clip[k].audio_format = loop_in.audio_format
        /\ Len(full_loop) = bytes_per_bar * bar_count
        /\ full_loop = SubSeq(SourceData(loop_in.size), 1, bytes_per_bar * bar_count)

C5_Witness ==
    /\ loop_in # <<>>
    /\ loop_in.beats = 2 * BeatsPerBar
    /\ loop_in.size >= Len(full_loop)
    /\ Len(active_clip) = 2
    /\ Len(active_clip[1].data) = Len(active_clip[2].data)
    /\ active_clip[1].data # active_clip[2].data

\* C6: on a 16-bit stereo buffer every seek leaves an offset that is a
\* multiple of 4.
C6_StereoSeekAligned ==
    (/\ src_t # <<>>
     /\ src.audio_format.channels = 2
     /\ src.audio_format.sample_size = 16)
    => OffsetMod(src_offset, 4) = 0

C6_Witness ==
    /\ src_t # <<>>
    /\ src.audio_format.channels = 2
    /\ src.audio_format.sample_size = 16
    /\ OffsetMod(ByteOffset(src_t, src.audio_format), 4) # 0

\* C7: in every format a seek leaves floor(t * bytes_per_second) rounded
\* down to a multiple of bytes_per_sample.
C7_SeekAlignsEveryFormat ==
    src_t # <<>> =>
        src_offset = RoundDownTo(ByteOffset(src_t, src.audio_format),
                                 BytesPerSample(src.audio_format))

\* C8: a 16-bit stereo bar of whole frames that goes through to_torch and
\* from_torch comes back byte for byte.
C8_RoundTripExact ==
    rt_pc = "done" =>
        /\ rt_out.data = rt_src.data
        /\ rt_out.audio_format = rt_src.audio_format

C8_Witness ==
    /\ rt_pc = "done"
    /\ Len(rt_src.data) = 8
    /\ rt_tensor[1][1].m < 0
    /\ rt_tensor[2][2].m > 0
    /\ rt_tensor[1] # rt_tensor[2]

\* C9: after a seek the offset is within the buffer and on a sample boundary.
C9_SeekClamps ==
    src_t # <<>> =>
        /\ src_offset.hi = 0
        /\ src_offset.lo <= Len(src.data)
        /\ OffsetMod(src_offset, BytesPerSample(src.audio_format)) = 0

\* C10: a Clip is "cued" until its first bar is produced and "playing" from
\* then on.
C10_PlayingAfterFirstBar ==
    /\ clip_state \in {"cued", "playing"}
    /\ clip_calls = 0 => clip_state = "cued"
    /\ clip_calls > 0 => clip_state = "playing"

\* C11: when the file holds fewer bytes than asked for, or the bytes read
\* are not a whole number of bars, the call does not end as a success, and
\* no bar shorter than bytes_per_bar is ever put in active_clip.
C11_ShortDataRejected ==
    loop_in # <<>> =>
        LET samples_per_beat ==
                SamplesPerBeat(loop_in.bpm, loop_in.audio_format.sample_rate)
            bytes_per_sample == BytesPerSample(loop_in.audio_format)
            bytes_per_bar == BytesPerBar(samples_per_beat, bytes_per_sample)
            requested == RequestedBytes(samples_per_beat, bytes_per_sample, loop_in.beats)
        IN  /\ \A k \in 1..Len(active_clip) : Len(active_clip[k].data) = bytes_per_bar
            /\ (loop_in.size < requested \/ Len(full_loop) % bytes_per_bar # 0)
                    => cache_ret # "ok"

\* C12: once the chain is empty, cleared by the caller or emptied by the
\* finished FadeIn, a next_bar() call returns the bytes of bars[cursor] as
\* they are, moves the cursor one on, leaves the chain empty; and no call
\* ever changes the bars.
C12_EmptyChainPassThrough ==
    [][/\ clip_bars' = clip_bars
       /\ clip_effects = <<>> => clip_effects' = <<>>
       /\ (clip_effects = <<>> /\ clip_calls' # clip_calls) =>
             /\ clip_current'.data = clip_bars[clip_bar + 1].data
             /\ clip_current'.audio_format = clip_bars[clip_bar + 1].audio_format
             /\ clip_bar' = (clip_bar + 1) % Len(clip_bars)]_vars

\* a bar that a running FadeIn would have changed came back as it is on the
\* second call: the chain was cleared before it
C12_Witness ==
    /\ clip_calls = 2
    /\ clip_effects = <<>>
    /\ LastBarRead.data = <<16, 39, 240, 216>>
    /\ clip_current.data = LastBarRead.data

\* C13: under every interleaving of selection keys, other keys and the
\* player's end-of-stream events, a non-empty active_clip has
\* 0 <= active_bar < len(active_clip); every bar handed to player.queue was
\* active_clip[active_bar] of the selected clip, and the bars handed since the
\* last successful selection are bars 0, 1, 2, ... of it in cyclic order, the
\* index standing at the next one
C13_IndexInRangeCyclicOrder ==
    /\ active_clip # <<>> => (0 <= active_bar /\ active_bar < Len(active_clip))
    /\ active_clip = <<>> => player_queued = <<>>
    /\ Len(sel_queued) <= Len(player_queued)
    /\ \A i \in 1..Len(sel_queued) :
          /\ sel_queued[i].index = (i - 1) % Len(active_clip)
          /\ sel_queued[i].source = active_clip[sel_queued[i].index + 1]
          /\ player_queued[Len(player_queued) - Len(sel_queued) + i] = sel_queued[i].source
    /\ active_clip # <<>> => active_bar = Len(sel_queued) % Len(active_clip)

\* a two-bar clip selected after a bar of another clip was handed over, and
\* its bars 0, 1, 0 handed to the player since: the index wrapped to 1
C13_Witness ==
    /\ Len(active_clip) = 2
    /\ Len(player_queued) = 4
    /\ Len(sel_queued) = 3
    /\ player_queued[1] # active_clip[1] /\ player_queued[1] # active_clip[2]
    /\ <<sel_queued[1].index, sel_queued[2].index, sel_queued[3].index>> = <<0, 1, 0>>
    /\ active_bar = 1

====
